---- MODULE Spec2Model ----
(***************************************************************************)
(* tuga: the command line client of the Tucluster service                  *)
(* (src/tuga/main.py).  One behaviour is one process: the click group      *)
(* `cli` receives an argv, builds the client and dispatches to the         *)
(* callback of the sub-command registered under the given name.  Every     *)
(* client call is a synchronous step that either returns or raises.        *)
(*                                                                         *)
(* Python's None is the string "None"; an option that was not given has    *)
(* that value.  bool options carry "True" / "False".                       *)
(***************************************************************************)
EXTENDS Integers, Sequences, FiniteSets, TLC

\* ---------------------------------------------------------------- bounds
MaxFiles == 2
MaxResults == 2

\* ---------------------------------------------------------------- values
None == "None"
DefaultHost == "http://localhost:8000"

Names == {"m1", "m2"}
Paths == {"a.tgc", "b.csv"}
Hosts == {DefaultHost, "http://h1:9000"}
ServerNames == {"srv-7f3a", "m1"}
Scripts == {"run.py", "sim.tcf"}
TaskIds == {"t1", "t2"}
Statuses == {201, 400}
OptText == {None, "", "txt"}
OptBool == {None, "True", "False"}

\* Python truthiness of an optional str (None and '' are falsy)
Truthy(v) == v # None /\ v # ""

\* Python truthiness of a tuple
TruthyTuple(t) == Len(t) > 0

SeqUpTo(S, n) == UNION {[1..k -> S] : k \in 0..n}

\* ------------------------------------------------------------ exceptions
NoExc == [type |-> "None", msg |-> ""]
ClientErrors == {[type |-> "ConnectionError", msg |-> "connection refused"],
                 [type |-> "HTTPError", msg |-> "500 Server Error"]}
OpenErrors == {[type |-> "PermissionError", msg |-> "Permission denied"]}
JsonErrors == {[type |-> "KeyError", msg |-> "'name'"]}

\* str(error)
Str(error) == error.msg

\* ---------------------------------------------------------------- output
\* click.secho(fmt.format(arg), fg=, bg=, bold=)
Secho(fmt, arg, fg, bg, bold) ==
    [fmt |-> fmt, arg |-> arg, fg |-> fg, bg |-> bg, bold |-> bold,
     json |-> <<>>]

\* click.progressbar(length=size, label=...) : the label it renders
ProgressBar(label, arg) ==
    [fmt |-> label, arg |-> arg, fg |-> "progressbar", bg |-> None,
     bold |-> FALSE, json |-> <<>>]

\* ----------------------------------------------------------- client calls
\* one call on the TuclusterClient: positional args, keyword args in source
\* order, and how it ended
Call(fn, args, kwargs, res) ==
    [fn |-> fn, args |-> args, kwargs |-> kwargs, res |-> res]

ProgressFn == <<"progress_fn", "progress.update">>

\* ------------------------------------------------------- command registry
Handlers == {"set_host", "create", "update", "anuga", "tuflow",
             "model", "results", "file"}

\* the decorators stacked on each handler that create, register or wrap the
\* command, outermost first (Python applies them innermost first)
Decorators(h) ==
    IF h = "set_host" THEN <<"format_exception", "click.command">>
                      ELSE <<"format_exception", "cli.command">>

\* click's command name of a handler function
CommandName(h) == IF h = "set_host" THEN "set-host" ELSE h

\* cli.command() adds the command it builds to the group; click.command()
\* builds a command that belongs to no group
Registered(h) ==
    \E i \in 1..Len(Decorators(h)) : Decorators(h)[i] = "cli.command"

\* cli.commands: the names the group can dispatch
GroupCommands == {CommandName(h) : h \in {g \in Handlers : Registered(g)}}

\* The callback of a registered command is the function as decorated BELOW
\* cli.command(); a decorator above it wraps the Command object that the
\* module name is bound to, not the callback the group invokes.
CallbackWrapped(h) ==
    \E i, j \in 1..Len(Decorators(h)) :
        /\ Decorators(h)[i] = "cli.command"
        /\ Decorators(h)[j] = "format_exception"
        /\ j > i

HandlerOf(c) == CHOOSE h \in Handlers : CommandName(h) = c

\* format_exception.wrap's except branch: one bold white on red line
wrap(output, error) ==
    Append(output, Secho("{}", Str(error), "white", "red", TRUE))

\* ------------------------------------------------------------------ argv
NoArgs == [cmd |-> None, host_opt |-> DefaultHost, name |-> None,
           data |-> None, description |-> None, email |-> None,
           files |-> <<>>, new_name |-> None, script |-> None,
           notify |-> None, watch |-> None, tree |-> None, task |-> None,
           model |-> None, download |-> None, fid |-> None, host |-> None]

SetHostArgv ==
    {[NoArgs EXCEPT !.cmd = "set-host", !.host_opt = ho, !.host = h] :
        ho \in Hosts, h \in Hosts}

\* --data is a click.Path(exists=True): when given it names an existing file
CreateArgv ==
    {[NoArgs EXCEPT !.cmd = "create", !.host_opt = ho, !.name = n, !.data = d,
                    !.description = de, !.email = e] :
        ho \in Hosts, n \in Names, d \in {None} \cup Paths,
        de \in {None, "txt"}, e \in {None, "a@b.c"}}

UpdateArgv ==
    {[NoArgs EXCEPT !.cmd = "update", !.name = n, !.files = f,
                    !.description = de, !.new_name = nn, !.email = e] :
        n \in {"m1"}, f \in SeqUpTo(Paths, MaxFiles), de \in OptText,
        nn \in {None, "", "m2"}, e \in {None, "a@b.c"}}

RunArgv ==
    {[NoArgs EXCEPT !.cmd = c, !.name = n, !.script = s, !.notify = no,
                    !.watch = w] :
        c \in {"anuga", "tuflow"}, n \in {"m1"}, s \in {None, "run.py"},
        no \in {None, "True"}, w \in {None, "False"}}

ModelArgv ==
    {[NoArgs EXCEPT !.cmd = "model", !.name = n, !.tree = t] :
        n \in {None, ""} \cup Names, t \in OptBool}

ResultsArgv ==
    {[NoArgs EXCEPT !.cmd = "results", !.task = t, !.model = m, !.script = s,
                    !.download = d, !.tree = tr] :
        t \in {None, "t1"}, m \in {None, "m1"}, s \in {None, "run.py"},
        d \in {None, "out"}, tr \in {None, "True"}}

FileArgv == {[NoArgs EXCEPT !.cmd = "file", !.fid = f] : f \in {"f1", "f2"}}

Argvs == SetHostArgv \cup CreateArgv \cup UpdateArgv \cup RunArgv
         \cup ModelArgv \cup ResultsArgv \cup FileArgv

\* ------------------------------------------------------ server responses
\* the response of a run creation: status code and JSON body
RunResults == [status_code : Statuses, entry_point : Scripts, task_id : TaskIds]
ResultLists == SeqUpTo(RunResults, MaxResults)

\* JSON objects as the server sends them: key/value pairs in server order
JsonValues == {<<>>,
               <<<<"name", "m1">>, <<"description", "txt">>>>,
               <<<<"tree", "{}">>, <<"name", "m2">>, <<"email", "a@b.c">>>>}

\* Python's order on the keys that occur
SortedKeys == <<"description", "email", "name", "tree">>
KeyRank(k) == CHOOSE i \in 1..Len(SortedKeys) : SortedKeys[i] = k

\* json.dumps(result, sort_keys=True, indent=4, separators=(',', ': ')):
\* the items in the order they are written
Dumps(result) ==
    SortSeq(result, LAMBDA p, q : KeyRank(p[1]) < KeyRank(q[1]))

\* click.secho(json.dumps(...))
SechoJson(result) ==
    [fmt |-> "{}", arg |-> "", fg |-> None, bg |-> None, bold |-> FALSE,
     json |-> Dumps(result)]

\* ----------------------------------------------------------------- state
VARIABLES
    pc,           \* position of the process
    argv,         \* the parsed command line
    host,         \* client.host of ctx.obj
    calls,        \* client calls issued so far, in order
    out,          \* lines written to the terminal, in order
    exc,          \* the exception in flight or last raised, NoExc if none
    outcome,      \* how the process ended: none, ok, caught, propagated, usage_error
    post_result,  \* create: response of post_model_zip
    model_dict,   \* create: post_result.json()
    fi,           \* update: index into files of the loop variable `path`
    result_list,  \* anuga/tuflow: what create_run returned
    result        \* model/results: what the client returned

vars == <<pc, argv, host, calls, out, exc, outcome, post_result, model_dict,
          fi, result_list, result>>

Init ==
    /\ pc = "start"
    /\ argv = NoArgs
    /\ host = None
    /\ calls = <<>>
    /\ out = <<>>
    /\ exc = NoExc
    /\ outcome = "none"
    /\ post_result = [name |-> None]
    /\ model_dict = [name |-> None]
    /\ fi = 0
    /\ result_list = <<>>
    /\ result = <<>>

\* variant: the exception is swallowed and the handler carries on
StepTarget_swallow(raised, next) == next

\* variant: the final success print runs like a `finally` block
StepTarget_finally(raised, next) ==
    IF raised /\ next \notin {"create_print", "update_print"}
      THEN "unwind" ELSE next

\* where control goes after a statement that may raise: an exception leaves
\* the handler, nothing after the raising statement runs
StepTarget(raised, next) == IF raised THEN "unwind" ELSE next

\* one statement that raises `error` or completes and falls through to next
Step(error, next) ==
    /\ exc' = IF error # NoExc THEN error ELSE exc
    /\ pc' = StepTarget(error # NoExc, next)

\* how a client call that raised `error` (NoExc: returned) is logged
Res(error) == IF error = NoExc THEN "returned" ELSE "raised"

\* ---------------------------------------------------------------- cli
\* variant: the test on data inverted
CreateEntry_inverted(data) ==
    IF ~Truthy(data) THEN "create_open" ELSE "create_empty"

\* create: `if data:` selects the upload path, else the empty model
CreateEntry(data) == IF Truthy(data) THEN "create_open" ELSE "create_empty"

\* first statement of the callback of each command
Entry(a) ==
    CASE a.cmd = "create" -> CreateEntry(a.data)
      [] a.cmd = "update" -> "update_meta"
      [] a.cmd = "anuga" -> "anuga"
      [] a.cmd = "tuflow" -> "tuflow"
      [] a.cmd = "model" -> "model"
      [] a.cmd = "results" -> "results"
      [] a.cmd = "file" -> "file"

\* cli(ctx, host, debug): the group resolves the sub-command, builds the
\* client on the --host value and invokes the sub-command's callback
Dispatch(a) ==
    /\ pc = "start"
    /\ a.cmd \in GroupCommands
    /\ argv' = a
    /\ host' = a.host_opt
    /\ pc' = Entry(a)
    /\ UNCHANGED <<calls, out, exc, outcome, post_result, model_dict, fi,
                   result_list, result>>

\* a name the group does not hold: click reports a usage error, the group
\* callback and every handler stay unrun
NoSuchCommand(a) ==
    /\ pc = "start"
    /\ a.cmd \notin GroupCommands
    /\ argv' = a
    /\ out' = Append(out, Secho("Error: No such command {}", a.cmd, None, None, FALSE))
    /\ outcome' = "usage_error"
    /\ pc' = "done"
    /\ UNCHANGED <<host, calls, exc, post_result, model_dict, fi,
                   result_list, result>>

\* body of set_host(client, host): client.host = host and the green line.
\* The group holds no command of that name, so no step of the process runs it.
SetHostBody(client_host, output, a) ==
    [host |-> a.host,
     out |-> Append(output, Secho("Host URL set to {}", a.host, "green", None, FALSE))]

\* an exception leaves the callback.  Where format_exception is part of the
\* callback its wrap prints the error and returns; otherwise the exception
\* leaves the command and the group.
Unwind ==
    /\ pc = "unwind"
    /\ IF CallbackWrapped(HandlerOf(argv.cmd))
          THEN /\ out' = wrap(out, exc)
               /\ outcome' = "caught"
          ELSE /\ out' = out
               /\ outcome' = "propagated"
    /\ pc' = "done"
    /\ UNCHANGED <<argv, host, calls, exc, post_result, model_dict, fi,
                   result_list, result>>

\* ---------------------------------------------------------------- create
\* with open(data, 'rb') as fobj: size = fobj.seek(0, 2)
CreateOpen ==
    /\ pc = "create_open"
    /\ \E e \in {NoExc} \cup OpenErrors : Step(e, "create_post")
    /\ UNCHANGED <<argv, host, calls, out, outcome, post_result, model_dict,
                   fi, result_list, result>>

\* post_result = client.post_model_zip(data, progress_fn=progress.update)
\* under the progress bar, then the two status lines
CreatePost ==
    /\ pc = "create_post"
    /\ \E e \in {NoExc} \cup ClientErrors, sn \in ServerNames :
        /\ calls' = Append(calls, Call("post_model_zip", <<argv.data>>,
                                       <<ProgressFn>>, Res(e)))
        /\ post_result' = IF e = NoExc THEN [name |-> sn] ELSE post_result
        /\ out' = IF e = NoExc
                    THEN out \o <<ProgressBar("Uploading data", ""),
                                   Secho("Upload successful", "", "green", None, FALSE),
                                   Secho("Updating metadata...", "", "blue", None, FALSE)>>
                    ELSE Append(out, ProgressBar("Uploading data", ""))
        /\ Step(e, "create_json")
    /\ UNCHANGED <<argv, host, outcome, model_dict, fi, result_list, result>>

\* model_dict = post_result.json()
CreateJson ==
    /\ pc = "create_json"
    /\ \E e \in {NoExc} \cup JsonErrors :
        /\ model_dict' = IF e = NoExc THEN post_result ELSE model_dict
        /\ Step(e, "create_patch")
    /\ UNCHANGED <<argv, host, calls, out, outcome, post_result, fi,
                   result_list, result>>

\* variant: the patch addressed by the name given on the command line
CreatePatchCall_username(md, name, description, email, res) ==
    Call("update_model", <<name>>,
         <<<<"new_name", name>>, <<"description", description>>,
           <<"email", email>>>>, res)

\* client.update_model(model_dict['name'], new_name=name,
\*                     description=description, email=email)
CreatePatchCall(md, name, description, email, res) ==
    Call("update_model", <<md.name>>,
         <<<<"new_name", name>>, <<"description", description>>,
           <<"email", email>>>>, res)

CreatePatch ==
    /\ pc = "create_patch"
    /\ \E e \in {NoExc} \cup ClientErrors :
        /\ calls' = Append(calls, CreatePatchCall(model_dict, argv.name,
                                argv.description, argv.email, Res(e)))
        /\ Step(e, "create_print")
    /\ UNCHANGED <<argv, host, out, outcome, post_result, model_dict, fi,
                   result_list, result>>

\* result = client.create_empty_model(name, description, email)
CreateEmpty ==
    /\ pc = "create_empty"
    /\ \E e \in {NoExc} \cup ClientErrors :
        /\ calls' = Append(calls, Call("create_empty_model",
                                <<argv.name, argv.description, argv.email>>,
                                <<>>, Res(e)))
        /\ Step(e, "create_print")
    /\ UNCHANGED <<argv, host, out, outcome, post_result, model_dict, fi,
                   result_list, result>>

\* click.secho('Model {} created!'.format(name), fg='green')
CreatePrint ==
    /\ pc = "create_print"
    /\ out' = Append(out, Secho("Model {} created!", argv.name, "green", None, FALSE))
    /\ outcome' = "ok"
    /\ pc' = "done"
    /\ UNCHANGED <<argv, host, calls, exc, post_result, model_dict, fi,
                   result_list, result>>

\* ---------------------------------------------------------------- update
\* `if description or new_name or email:`
HasMeta(a) == Truthy(a.description) \/ Truthy(a.new_name) \/ Truthy(a.email)

\* after the metadata block: `if files:` enters the loop over files
AfterMeta(a) == IF TruthyTuple(a.files) THEN "update_open" ELSE "update_print"

\* click.secho('Updating metadata...'); client.update_model(name,
\* description, new_name, email)
UpdateMetaCall ==
    /\ pc = "update_meta"
    /\ HasMeta(argv)
    /\ \E e \in {NoExc} \cup ClientErrors :
        /\ calls' = Append(calls, Call("update_model",
                      <<argv.name, argv.description, argv.new_name, argv.email>>,
                      <<>>, Res(e)))
        /\ Step(e, AfterMeta(argv))
    /\ out' = Append(out, Secho("Updating metadata...", "", "blue", None, FALSE))
    /\ fi' = 1
    /\ UNCHANGED <<argv, host, outcome, post_result, model_dict, result_list,
                   result>>

UpdateMetaSkip ==
    /\ pc = "update_meta"
    /\ ~HasMeta(argv)
    /\ pc' = AfterMeta(argv)
    /\ fi' = 1
    /\ UNCHANGED <<argv, host, calls, out, exc, outcome, post_result,
                   model_dict, result_list, result>>

\* with open(path, 'rb') as fobj: size = fobj.seek(0, 2)
UpdateOpen ==
    /\ pc = "update_open"
    /\ \E e \in {NoExc} \cup OpenErrors : Step(e, "update_add")
    /\ UNCHANGED <<argv, host, calls, out, outcome, post_result, model_dict,
                   fi, result_list, result>>

\* result = client.add_model_file(path, progress_fn=progress.update)
AddFileCall(path, res) ==
    Call("add_model_file", <<path>>, <<ProgressFn>>, res)

\* variant: the loop skips every other file
NextFile_skip(i) == i + 2

\* `for path in files` steps to the next file
NextFile(i) == i + 1

\* the loop ends after the last file
AfterFile(a, i) == IF i > Len(a.files) THEN "update_print" ELSE "update_open"

\* the progress bar labelled 'Uploading <basename>...' and the upload
UpdateAdd ==
    /\ pc = "update_add"
    /\ \E e \in {NoExc} \cup ClientErrors :
        /\ calls' = Append(calls, AddFileCall(argv.files[fi], Res(e)))
        /\ fi' = IF e = NoExc THEN NextFile(fi) ELSE fi
        /\ Step(e, AfterFile(argv, NextFile(fi)))
    /\ out' = Append(out, ProgressBar("Uploading {}...", argv.files[fi]))
    /\ UNCHANGED <<argv, host, outcome, post_result, model_dict, result_list,
                   result>>

\* 'Model {} updated!' and, `if new_name:`, the rename notice
UpdatePrint ==
    /\ pc = "update_print"
    /\ out' = out
              \o <<Secho("Model {} updated!", argv.name, "green", None, FALSE)>>
              \o (IF Truthy(argv.new_name)
                    THEN <<Secho("The model has been renamed to {}. Use this name for future queries",
                                 argv.new_name, "blue", None, FALSE)>>
                    ELSE <<>>)
    /\ outcome' = "ok"
    /\ pc' = "done"
    /\ UNCHANGED <<argv, host, calls, exc, post_result, model_dict, fi,
                   result_list, result>>

\* ---------------------------------------------------------- anuga, tuflow
\* what _print_run_results writes for one result
PrintRunResult(r) ==
    IF r.status_code = 201
      THEN <<Secho("Run for script {} created.", r.entry_point, "green", None, FALSE),
             Secho("To check the results, run: ", "", None, None, FALSE),
             Secho("tuga results --task {}", r.task_id, "blue", None, FALSE)>>
      ELSE <<Secho("Run creation failed", "", "white", "red", TRUE)>>

\* variant: the loop body returns after the first result
_print_run_results_first(results) ==
    IF results = <<>> THEN <<>> ELSE PrintRunResult(Head(results))

\* _print_run_results(results): `for r in results`
RECURSIVE _print_run_results(_)
_print_run_results(results) ==
    IF results = <<>> THEN <<>>
    ELSE PrintRunResult(Head(results)) \o _print_run_results(Tail(results))

\* result_list = client.create_run(name, script, notify, watch, engine)
CreateRun(engine) ==
    /\ \E e \in {NoExc} \cup ClientErrors, rl \in ResultLists :
        /\ calls' = Append(calls, Call("create_run",
                      <<argv.name, argv.script, argv.notify, argv.watch, engine>>,
                      <<>>, Res(e)))
        /\ result_list' = IF e = NoExc THEN rl ELSE result_list
        /\ Step(e, "print_runs")
    /\ UNCHANGED <<argv, host, out, outcome, post_result, model_dict, fi,
                   result>>

anuga ==
    /\ pc = "anuga"
    /\ CreateRun("anuga")

tuflow ==
    /\ pc = "tuflow"
    /\ CreateRun("tuflow")

PrintRuns ==
    /\ pc = "print_runs"
    /\ out' = out \o _print_run_results(result_list)
    /\ outcome' = "ok"
    /\ pc' = "done"
    /\ UNCHANGED <<argv, host, calls, exc, post_result, model_dict, fi,
                   result_list, result>>

\* ----------------------------------------------------------------- model
\* `if name:` client.get_model(name, tree) `else:` client.get_models()
ModelCall(name, tree, res) ==
    IF Truthy(name) THEN Call("get_model", <<name, tree>>, <<>>, res)
                    ELSE Call("get_models", <<>>, <<>>, res)

model ==
    /\ pc = "model"
    /\ \E e \in {NoExc} \cup ClientErrors, v \in JsonValues :
        /\ calls' = Append(calls, ModelCall(argv.name, argv.tree, Res(e)))
        /\ result' = IF e = NoExc THEN v ELSE result
        /\ Step(e, "model_print")
    /\ UNCHANGED <<argv, host, out, outcome, post_result, model_dict, fi,
                   result_list>>

ModelPrint ==
    /\ pc = "model_print"
    /\ out' = out \o <<Secho("Model Info:", "", None, None, FALSE),
                       SechoJson(result)>>
    /\ outcome' = "ok"
    /\ pc' = "done"
    /\ UNCHANGED <<argv, host, calls, exc, post_result, model_dict, fi,
                   result_list, result>>

\* --------------------------------------------------------------- results
\* result = client.get_results(task, model, script)
results ==
    /\ pc = "results"
    /\ \E e \in {NoExc} \cup ClientErrors, v \in JsonValues :
        /\ calls' = Append(calls, Call("get_results",
                      <<argv.task, argv.model, argv.script>>, <<>>, Res(e)))
        /\ result' = IF e = NoExc THEN v ELSE result
        /\ Step(e, "results_print")
    /\ UNCHANGED <<argv, host, out, outcome, post_result, model_dict, fi,
                   result_list>>

ResultsPrint ==
    /\ pc = "results_print"
    /\ out' = out \o <<Secho("Result Info:", "", None, None, FALSE),
                       SechoJson(result)>>
    /\ outcome' = "ok"
    /\ pc' = "done"
    /\ UNCHANGED <<argv, host, calls, exc, post_result, model_dict, fi,
                   result_list, result>>

\* ------------------------------------------------------------------ file
\* result = client.file(fid)
file ==
    /\ pc = "file"
    /\ \E e \in {NoExc} \cup ClientErrors :
        /\ calls' = Append(calls, Call("file", <<argv.fid>>, <<>>, Res(e)))
        /\ Step(e, "return")
    /\ UNCHANGED <<argv, host, out, outcome, post_result, model_dict, fi,
                   result_list, result>>

\* a callback that returns without a final print
Return ==
    /\ pc = "return"
    /\ outcome' = "ok"
    /\ pc' = "done"
    /\ UNCHANGED <<argv, host, calls, out, exc, post_result, model_dict, fi,
                   result_list, result>>

\* ------------------------------------------------------------------ spec
Next ==
    \/ \E a \in Argvs : Dispatch(a)
    \/ \E a \in Argvs : NoSuchCommand(a)
    \/ Unwind
    \/ CreateOpen
    \/ CreatePost
    \/ CreateJson
    \/ CreatePatch
    \/ CreateEmpty
    \/ CreatePrint
    \/ UpdateMetaCall
    \/ UpdateMetaSkip
    \/ UpdateOpen
    \/ UpdateAdd
    \/ UpdatePrint
    \/ anuga
    \/ tuflow
    \/ PrintRuns
    \/ model
    \/ ModelPrint
    \/ results
    \/ ResultsPrint
    \/ file
    \/ Return

Spec == Init /\ [][Next]_vars

TypeOK ==
    /\ pc \in {"start", "done", "unwind", "return", "create_open",
               "create_post", "create_json", "create_patch", "create_empty",
               "create_print", "update_meta", "update_open", "update_add",
               "update_print", "anuga", "tuflow", "print_runs", "model",
               "model_print", "results", "results_print", "file"}
    /\ argv \in Argvs \cup {NoArgs}
    /\ outcome \in {"none", "ok", "caught", "propagated", "usage_error"}
    /\ fi \in 0..(MaxFiles + 1)
    /\ result_list \in ResultLists


\* ================================================================ claims
IsPrefix(s, t) == Len(s) <= Len(t) /\ \A i \in 1..Len(s) : s[i] = t[i]

\* value of keyword argument k of call c, None when absent
Kw(c, k) ==
    IF \E i \in 1..Len(c.kwargs) : c.kwargs[i][1] = k
      THEN c.kwargs[CHOOSE i \in 1..Len(c.kwargs) : c.kwargs[i][1] = k][2]
      ELSE None

\* what a call is and, for an upload, which file it sends
Sig(c) == <<c.fn, IF c.fn \in {"post_model_zip", "add_model_file"}
                    THEN c.args[1] ELSE "">>
Sigs(cs) == [i \in 1..Len(cs) |-> Sig(cs[i])]

\* the client calls a command is to make when nothing fails, in order
Plan(a) ==
    CASE a.cmd = "create" /\ a.data # None ->
            <<<<"post_model_zip", a.data>>, <<"update_model", "">>>>
      [] a.cmd = "create" /\ a.data = None -> <<<<"create_empty_model", "">>>>
      [] a.cmd = "update" ->
            (IF a.description \notin {None, ""} \/ a.new_name \notin {None, ""}
                \/ a.email \notin {None, ""}
               THEN <<<<"update_model", "">>>> ELSE <<>>)
            \o [i \in 1..Len(a.files) |-> <<"add_model_file", a.files[i]>>]
      [] OTHER -> <<>>

IsErrorLine(l) == l.fg = "white" /\ l.bg = "red" /\ l.bold

\* C1: whenever the body of a dispatched sub-command raised, the process ends
\* with the exception caught and exactly one bold white-on-red line carrying
\* str(error); the exception does not leave the command.
C1_ExceptionCaught ==
    (pc = "done" /\ exc # NoExc) =>
        /\ outcome = "caught"
        /\ Cardinality({i \in 1..Len(out) : IsErrorLine(out[i])}) = 1
        /\ \E i \in 1..Len(out) : IsErrorLine(out[i]) /\ out[i].arg = Str(exc)

\* C2: in `create` with --data, every update_model call comes after a
\* post_model_zip call that returned, is addressed by the name of the upload
\* response and carries the user's name only as new_name.
C2_UploadBeforePatch ==
    (argv.cmd = "create" /\ argv.data # None) =>
        \A i \in 1..Len(calls) :
            calls[i].fn = "update_model" =>
                /\ \E j \in 1..(i - 1) :
                      /\ calls[j].fn = "post_model_zip"
                      /\ calls[j].res = "returned"
                /\ calls[i].args = <<post_result.name>>
                /\ Kw(calls[i], "new_name") = argv.name

C2_Witness ==
    /\ argv.cmd = "create"
    /\ argv.data # None
    /\ Len(calls) = 2
    /\ calls[2].fn = "update_model"
    /\ calls[2].res = "returned"
    /\ post_result.name # argv.name
    /\ outcome = "ok"

\* C3: in `create` without --data no upload call is ever issued; the only
\* client call is one create_empty_model(name, description, email), and it
\* has been made once the handler is past it.
C3_CreateNoDataNoUpload ==
    (argv.cmd = "create" /\ argv.data = None) =>
        /\ \A i \in 1..Len(calls) :
              calls[i].fn \notin {"post_model_zip", "add_model_file"}
        /\ Len(calls) <= 1
        /\ \A i \in 1..Len(calls) :
              /\ calls[i].fn = "create_empty_model"
              /\ calls[i].args = <<argv.name, argv.description, argv.email>>
        /\ (pc = "done" => Len(calls) = 1)

C3_Witness ==
    /\ argv.cmd = "create"
    /\ argv.data = None
    /\ pc = "done"
    /\ outcome = "ok"
    /\ Len(calls) = 1

\* the paths of the add_model_file calls, in call order
UploadedPaths ==
    LET ups == SelectSeq(calls, LAMBDA c : c.fn = "add_model_file")
    IN  [i \in 1..Len(ups) |-> ups[i].args[1]]

\* C4: in `update` an update_model call precedes every add_model_file call,
\* and when no step failed the add_model_file calls are exactly the --file
\* values, one call per occurrence, in the order given.
C4_UpdateOrder ==
    argv.cmd = "update" =>
        /\ \A i, j \in 1..Len(calls) :
              (calls[i].fn = "update_model" /\ calls[j].fn = "add_model_file")
                  => i < j
        /\ (outcome = "ok" => UploadedPaths = argv.files)

C4_Witness ==
    /\ argv.cmd = "update"
    /\ outcome = "ok"
    /\ Len(argv.files) = 2
    /\ argv.files[1] # argv.files[2]
    /\ Len(calls) = 3
    /\ calls[1].fn = "update_model"

\* number of lines written for the first n results of rs
RECURSIVE LinesBefore(_, _)
LinesBefore(rs, n) ==
    IF n = 0 THEN 0
    ELSE LinesBefore(rs, n - 1) + (IF rs[n].status_code = 201 THEN 3 ELSE 1)

C6_ModelDispatch ==
    (argv.cmd = "model" /\ pc \in {"model_print", "unwind", "done"}) =>
        /\ Len(calls) = 1
        /\ IF argv.name = None
             THEN calls[1].fn = "get_models" /\ calls[1].args = <<>>
             ELSE calls[1].fn = "get_model"
                  /\ calls[1].args = <<argv.name, argv.tree>>

\* C7: `cli set-host <host>` is dispatched to set_host: the process ends
\* with client.host = <host> and the green confirmation line.
C7_SetHostDispatched ==
    (argv.cmd = "set-host" /\ pc = "done") =>
        /\ "set-host" \in GroupCommands
        /\ outcome = "ok"
        /\ host = SetHostBody(host, <<>>, argv).host
        /\ out = SetHostBody(host, <<>>, argv).out

\* C8: in `create --data` and `update` the calls made are at every moment a
\* prefix of the command's forward plan (no compensating call), only the
\* last call made can be one that raised, and once a step raised no further
\* client call is issued.
C8_NoRollbackNoContinuation ==
    /\ []((argv.cmd = "update" \/ (argv.cmd = "create" /\ argv.data # None)) =>
            /\ IsPrefix(Sigs(calls), Plan(argv))
            /\ \A i \in 1..Len(calls) :
                  calls[i].res = "raised" => i = Len(calls))
    /\ [][exc # NoExc => calls' = calls]_vars

C8_Witness ==
    /\ argv.cmd = "update"
    /\ pc = "done"
    /\ Len(argv.files) = 2
    /\ Len(calls) = 2
    /\ calls[1].fn = "update_model"
    /\ calls[1].res = "returned"
    /\ calls[2].fn = "add_model_file"
    /\ calls[2].res = "raised"

\* C9: every add_model_file call of `update <name>` carries <name>.
C9_UploadAddressed ==
    argv.cmd = "update" =>
        \A i \in 1..Len(calls) :
            calls[i].fn = "add_model_file" =>
                \/ \E k \in 1..Len(calls[i].args) : calls[i].args[k] = argv.name
                \/ \E k \in 1..Len(calls[i].kwargs) :
                      calls[i].kwargs[k][2] = argv.name

IsSuccessLine(l) == l.fmt \in {"Model {} created!", "Model {} updated!"}
SuccessPrinted == \E i \in 1..Len(out) : IsSuccessLine(out[i])

\* C10: the success line of create / update is printed only when every
\* client call of the command was issued and returned, never when a step
\* raised, and no client call is issued after it.
C10_SuccessOnlyAfterAllCalls ==
    /\ [](SuccessPrinted =>
            /\ exc = NoExc
            /\ Sigs(calls) = Plan(argv)
            /\ \A i \in 1..Len(calls) : calls[i].res = "returned")
    /\ [](exc # NoExc => ~SuccessPrinted)
    /\ [][SuccessPrinted => calls' = calls]_vars

C10_Witness ==
    /\ argv.cmd = "update"
    /\ SuccessPrinted
    /\ Len(calls) = 3
    /\ pc = "done"

====
